---- MODULE Spec2Model ----
(***************************************************************************)
(* Model of the visa-agent conversation graph (src/graph/builder.py and    *)
(* src/nodes/*.py) and of the agent-based basic-information tool           *)
(* (src/agent_based_assistant/tools/application_basic.py).                 *)
(*                                                                         *)
(* One thread of conversation is modelled.  `state` is the graph state     *)
(* dict of that thread: a node returns a dict of updates which is merged   *)
(* into `state` (the `messages` key through add_messages, the document     *)
(* buckets through operator.add, every other key by overwriting), and the  *)
(* edge leaving the node is then evaluated on the merged state, exactly as *)
(* the lambdas of build_graph read it.  Keys the nodes write and read      *)
(* (next, user_answer_category, incomplete_initial_info,                   *)
(* confirmation_pending, previous_node) are kept in the state like the     *)
(* declared ones: the nodes are written against that behaviour.            *)
(*                                                                         *)
(* A key that is absent and a key that holds None / {} / False are read    *)
(* identically by every read in the source (state.get(k, default) followed *)
(* by a truth test or a .get), so an absent key is modelled by NULL,       *)
(* FALSE, 0 or EmptyInfo.                                                  *)
(*                                                                         *)
(* Calls to the language model, the knowledge base, the file system and    *)
(* the OCR service are inputs: every result they can return, and their     *)
(* failure, is chosen nondeterministically.                                *)
(***************************************************************************)
EXTENDS Integers, Sequences, FiniteSets, TLC

\* ------------------------------------------------------------------ bounds
\* Length of the history up to which the user sends another message.
MaxTurns == 4
\* Number of node executions allowed in one graph run (the graph runtime's
\* recursion limit); a run that needs more is aborted.
RecursionLimit == 5
\* Number of extraction calls that fail on the thread.
MaxFailures == 2

\* --------------------------------------------------------------- constants
\* Python None.
NULL == "None"
\* The integer 0 as a value of number_of_travelers (slot values are written
\* as strings so that they can be compared with NULL).
ZERO == "0"
\* The empty string.
EMPTY == ""
\* A key the state dict does not hold (where that differs from None).
ABSENT == "absent"

\* The required slots, in the order every missing-field computation tests
\* them.
RequiredSlots == <<"country", "purpose_of_travel", "number_of_travelers", "travel_dates">>

SlotSet == {RequiredSlots[i] : i \in 1..Len(RequiredSlots)}

\* {} : a dict in which .get(k) is None for every slot.
EmptyInfo == [k \in SlotSet |-> NULL]

\* Python truth value of a slot value: None, "" and 0 are false.
Truthy(k, v) ==
    /\ v # NULL
    /\ v # EMPTY
    /\ ~(k = "number_of_travelers" /\ v = ZERO)

\* Truth value of a dict of slots: {} is false.
TruthyInfo(info) == \E k \in SlotSet : info[k] # NULL

\* Values a stored slot is drawn from in the checks.
CountryValues == {"Thailand", "Vietnam"}

\* Values the extractor can return for each slot (VisaInfo: Optional[str] /
\* Optional[int]); they include the falsy non-null values "" and 0.
ExtractedValues(k) ==
    CASE k = "country" -> {NULL, EMPTY} \cup CountryValues
      [] k = "purpose_of_travel" -> {NULL, "tourism"}
      [] k = "number_of_travelers" -> {NULL, ZERO, "2"}
      [] k = "travel_dates" -> {NULL, "next month"}

\* The results of a successful structured extraction.
Extractions == {r \in [SlotSet -> {NULL, EMPTY, ZERO, "2", "tourism", "next month"} \cup CountryValues] :
                    \A k \in SlotSet : r[k] \in ExtractedValues(k)}

\* ---------------------------------------------------------------- messages
\* A message of the history.  id = 0 stands for a message that has not been
\* given an id yet; content is [kind, arg]: the kind of text and the list it
\* was formatted from.
Msg(type, kind, arg) == [id |-> 0, type |-> type, content |-> [kind |-> kind, arg |-> arg]]

AIMessage(kind, arg) == Msg("ai", kind, arg)

HumanMessage(kind, arg) == Msg("human", kind, arg)

\* `not user_message or not user_message.strip()`
IsBlank(content) == content.kind = "empty"

RECURSIVE add_messages(_, _)
\* The reducer of State.messages: a message whose id is already in the list
\* replaces that entry, any other message is appended (and given an id).
add_messages(left, right) ==
    IF right = <<>> THEN left
    ELSE LET m == Head(right)
             same == {i \in 1..Len(left) : m.id # 0 /\ left[i].id = m.id}
         IN  IF same # {}
             THEN add_messages([left EXCEPT ![CHOOSE i \in same : TRUE] = m], Tail(right))
             ELSE add_messages(Append(left, [m EXCEPT !.id = IF m.id = 0 THEN Len(left) + 1 ELSE m.id]),
                               Tail(right))

\* The latest message of type 'human' ("" when there is none).
LatestHuman(messages) ==
    LET idx == {i \in 1..Len(messages) : messages[i].type = "human"}
    IN  IF idx = {} THEN [kind |-> "empty", arg |-> <<>>]
        ELSE messages[CHOOSE i \in idx : \A j \in idx : j <= i].content

\* The content of the latest message of type 'ai' before the last message.
LastAI(messages) ==
    LET idx == {i \in 1..Len(messages) : messages[i].type = "ai"}
    IN  IF idx = {} THEN [kind |-> "none", arg |-> <<>>]
        ELSE messages[CHOOSE i \in idx : \A j \in idx : j <= i].content

\* ------------------------------------------------------------------- state
VARIABLES
    state,      \* the graph state dict of the thread
    pc,         \* the node that runs next in the current graph run; "__end__" between runs
    turn,       \* number of user messages sent so far
    step,       \* number of nodes executed in the current graph run
    run_error,  \* how the last graph run ended: "none", "routing", "recursion"
    llm_calls,  \* the language-model calls made by the node that ran last
    recognised, \* the slots the extraction model recognises in the user's latest text
    words,      \* what the words of the user's latest text hold: file paths, slashes, neither
    failures,   \* number of extraction calls that have failed
    resolver,   \* handle_resume_decision's last execution in the current run: its `intent`
                \* and the confirmation_pending it read (NoDecision before it has run)
    tool,       \* the last call of base_information_collector_tool (agent-based assistant)
    documents,  \* the input list of the last direct call of route_documents_to_state
    server,     \* the API servers: the stored state of every thread and the requests
                \* being processed
    llm_config  \* the last call of LLMConfig.invoke_with_retry (agent-based assistant)

vars == <<state, pc, turn, step, run_error, llm_calls, recognised, words, failures, resolver, tool,
          documents, server, llm_config>>

END == "__end__"

\* State as main() creates it: {"messages": []}.
InitialState == [
    messages |-> <<>>,
    passport_info |-> <<>>,
    financial_info |-> <<>>,
    accommodation_info |-> <<>>,
    document_uploads |-> <<>>,
    initial_info |-> EmptyInfo,
    collection_in_progress |-> FALSE,
    incomplete_session_id |-> NULL,
    awaiting_user_response |-> FALSE,
    extraction_retry_count |-> 0,
    next |-> NULL,
    user_answer_category |-> NULL,
    incomplete_initial_info |-> EmptyInfo,
    confirmation_pending |-> FALSE,
    previous_node |-> ABSENT ]

NoDecision == [intent |-> "none", confirmation_pending |-> FALSE]

\* A node's result: the state after its update is merged, and the calls made.
Range(seq) == {seq[i] : i \in 1..Len(seq)}

Result(s, calls) == [s |-> s, calls |-> calls]

Call(name, ok) == [call |-> name, ok |-> ok]

\* Merge of {"messages": [m]} into the state.
AddMsg(s, m) == [s EXCEPT !.messages = add_messages(s.messages, <<m>>)]

\* ------------------------------------------------- nodes/intent_analyzer.py
\* A reply of the model to the answer-or-enquiry prompt: the call raised
\* (ok = FALSE) or returned a text that does or does not contain "answer"
\* and "general".
ClassifierReplies == [ok : BOOLEAN, has_answer : BOOLEAN, has_general : BOOLEAN]

\* Variant of classify_user_response whose except branch returns
\* "general_enquiry".
classify_user_response_FailureDiverts(reply) ==
    IF ~reply.ok THEN "general_enquiry"
    ELSE IF reply.has_answer THEN "answer"
    ELSE IF reply.has_general THEN "general_enquiry"
    ELSE "answer"

\* classify_user_response: "answer" unless the text contains "general" and
\* not "answer"; "answer" when the call raises.
classify_user_response(reply) ==
    IF ~reply.ok THEN "answer"
    ELSE IF reply.has_answer THEN "answer"
    ELSE IF reply.has_general THEN "general_enquiry"
    ELSE "answer"

\* Variant of PendingDecision whose enquiry branch does not save the
\* collected information.
PendingDecision_NoSnapshot(s, user_answer_category) ==
    IF user_answer_category = "answer"
    THEN [s EXCEPT !.next = "base_information_collector",
                   !.user_answer_category = "answer"]
    ELSE IF user_answer_category = "general_enquiry"
    THEN [s EXCEPT !.next = "general_enquiry",
                   !.user_answer_category = "general_enquiry",
                   !.collection_in_progress = TRUE,
                   !.previous_node = "base_information_collector"]
    ELSE [s EXCEPT !.next = "base_information_collector",
                   !.user_answer_category = "answer"]

\* The update intent_analyser returns for a category while a question is
\* pending.
PendingDecision(s, user_answer_category) ==
    IF user_answer_category = "answer"
    THEN [s EXCEPT !.next = "base_information_collector",
                   !.user_answer_category = "answer"]
    ELSE IF user_answer_category = "general_enquiry"
    THEN [s EXCEPT !.next = "general_enquiry",
                   !.user_answer_category = "general_enquiry",
                   !.collection_in_progress = TRUE,
                   !.incomplete_initial_info = s.initial_info,
                   !.previous_node = "base_information_collector"]
    ELSE [s EXCEPT !.next = "base_information_collector",
                   !.user_answer_category = "answer"]

\* The intents IntentClassification can carry, and the failure of the call.
IntentReplies == {"greetings", "general_enquiry", "document_submission", "visa_application", "exception"}

\* Variant of IntentRoute in which a failed call goes to greetings.
IntentRoute_FailureGreets(reply) ==
    CASE reply = "greetings" -> "greetings"
      [] reply = "general_enquiry" -> "general_enquiry"
      [] reply = "document_submission" -> "docs_parser"
      [] reply = "exception" -> "greetings"
      [] OTHER -> "visa_application"

\* Route of the full intent classification; a failed call goes to
\* general_enquiry.
IntentRoute(reply) ==
    CASE reply = "greetings" -> "greetings"
      [] reply = "general_enquiry" -> "general_enquiry"
      [] reply = "document_submission" -> "docs_parser"
      [] reply = "exception" -> "general_enquiry"
      [] OTHER -> "visa_application"

\* The fixed affirmation / negation tokens.
IsResumeToken(content) == content.kind = "token"

\* intent_analyser reads the LAST message, whatever its type.
intent_analyser(s) ==
    LET user_message == s.messages[Len(s.messages)].content IN
    IF IsBlank(user_message)
    THEN {Result(AddMsg(s, AIMessage("empty_notice", <<>>)), <<>>)}
    ELSE IF s.awaiting_user_response
    THEN {Result(PendingDecision(s, classify_user_response(reply)),
                 <<Call("classify_user_response", reply.ok)>>) : reply \in ClassifierReplies}
    ELSE IF s.incomplete_session_id # NULL /\ IsResumeToken(user_message)
    THEN {Result([s EXCEPT !.next = "handle_resume_decision"], <<>>)}
    ELSE {Result([s EXCEPT !.next = IntentRoute(reply)],
                 <<Call("intent_classification", reply # "exception")>>) : reply \in IntentReplies}

\* ------------------------------------------------------- nodes/greetings.py
greetings(s) == {Result(AddMsg(s, AIMessage("greeting", <<>>)), <<>>)}

\* ------------------------------------------------ nodes/visa_application.py
visa_application(s) ==
    {Result([AddMsg(s, AIMessage("visa_application_intro", <<>>))
                EXCEPT !.next = "base_information_collector"], <<>>)}

\* --------------------------------------- nodes/base_information_collector.py
\* The four `if not info.get(k)` tests, in order.
MissingFields_OneAtATime(info) ==
    LET missing == SelectSeq(RequiredSlots, LAMBDA k : ~Truthy(k, info[k]))
    IN  IF missing = <<>> THEN <<>> ELSE <<Head(missing)>>

MissingFields(info) == SelectSeq(RequiredSlots, LAMBDA k : ~Truthy(k, info[k]))

\* "Merge with current info": every truthy extracted value is written over
\* the copy of the current info.
MergeExtracted(current_initial_info, extracted_data) ==
    [k \in SlotSet |-> IF Truthy(k, extracted_data[k])
                       THEN extracted_data[k]
                       ELSE current_initial_info[k]]

\* The retry bound of the except branch (`retry_count >= 1`).
RetryBound == 1

\* Variant of ExtractionFailed that gives up one failure later
\* (`retry_count > 1`).
ExtractionFailed_OneMoreRetry(s) ==
    LET retry_count == s.extraction_retry_count IN
    IF retry_count > RetryBound
    THEN [AddMsg(s, AIMessage("apology", <<>>))
            EXCEPT !.extraction_retry_count = 0,
                   !.user_answer_category = NULL]
    ELSE [AddMsg(s, AIMessage("retry_request", <<>>))
            EXCEPT !.extraction_retry_count = retry_count + 1,
                   !.initial_info = EmptyInfo,
                   !.awaiting_user_response = TRUE,
                   !.user_answer_category = NULL]

\* The except branch of extract_and_process_info.
ExtractionFailed(s) ==
    LET retry_count == s.extraction_retry_count IN
    IF retry_count >= RetryBound
    THEN [AddMsg(s, AIMessage("apology", <<>>))
            EXCEPT !.extraction_retry_count = 0,
                   !.user_answer_category = NULL]
    ELSE [AddMsg(s, AIMessage("retry_request", <<>>))
            EXCEPT !.extraction_retry_count = retry_count + 1,
                   !.initial_info = EmptyInfo,
                   !.awaiting_user_response = TRUE,
                   !.user_answer_category = NULL]

\* Variant of ExtractionSucceeded that leaves extraction_retry_count as it
\* is.
ExtractionSucceeded_KeepsCount(s, extracted_data) ==
    LET extracted_info == MergeExtracted(s.initial_info, extracted_data)
        missing_fields == MissingFields(extracted_info)
    IN  IF missing_fields = <<>>
        THEN [AddMsg(s, AIMessage("summary", <<>>))
                EXCEPT !.initial_info = extracted_info,
                       !.awaiting_user_response = FALSE,
                       !.next = "detailed_collector",
                       !.user_answer_category = NULL]
        ELSE [AddMsg(s, AIMessage("question", missing_fields))
                EXCEPT !.initial_info = extracted_info,
                       !.awaiting_user_response = TRUE,
                       !.user_answer_category = NULL]

\* The branch of extract_and_process_info after a successful call.
ExtractionSucceeded(s, extracted_data) ==
    LET extracted_info == MergeExtracted(s.initial_info, extracted_data)
        missing_fields == MissingFields(extracted_info)
    IN  IF missing_fields = <<>>
        THEN [AddMsg(s, AIMessage("summary", <<>>))
                EXCEPT !.initial_info = extracted_info,
                       !.awaiting_user_response = FALSE,
                       !.next = "detailed_collector",
                       !.extraction_retry_count = 0,
                       !.user_answer_category = NULL]
        ELSE [AddMsg(s, AIMessage("question", missing_fields))
                EXCEPT !.initial_info = extracted_info,
                       !.awaiting_user_response = TRUE,
                       !.extraction_retry_count = 0,
                       !.user_answer_category = NULL]

\* One extraction call, which returns one of the VisaInfo results the model
\* can give for the message, or raises.
extract_and_process_info(s, results) ==
    {Result(ExtractionSucceeded(s, r), <<Call("extraction", TRUE)>>) : r \in results}
    \cup {Result(ExtractionFailed(s), <<Call("extraction", FALSE)>>)}

handle_restored_collection(s) ==
    LET current_initial_info == s.initial_info
        missing_fields == MissingFields(current_initial_info)
    IN  IF missing_fields = <<>>
        THEN {Result([AddMsg(s, AIMessage("summary", <<>>))
                        EXCEPT !.collection_in_progress = FALSE,
                               !.user_answer_category = NULL,
                               !.awaiting_user_response = FALSE,
                               !.next = "detailed_collector"], <<>>)}
        ELSE {Result([AddMsg(s, AIMessage("continue_question", missing_fields))
                        EXCEPT !.collection_in_progress = FALSE,
                               !.user_answer_category = NULL,
                               !.awaiting_user_response = TRUE], <<>>)}

\* `results` are the extraction results the model can give for the latest
\* human message.
base_information_collector(s, results) ==
    LET user_message == LatestHuman(s.messages) IN
    IF IsBlank(user_message)
    THEN {Result([AddMsg(s, AIMessage("no_response", <<>>))
                    EXCEPT !.awaiting_user_response = TRUE], <<>>)}
    ELSE IF s.user_answer_category = "answer"
    THEN extract_and_process_info(s, results)
    ELSE IF s.collection_in_progress /\ s.user_answer_category = NULL
    THEN handle_restored_collection(s)
    ELSE extract_and_process_info(s, results)

\* ------------------------------------------------- nodes/general_enquiry.py
\* Results of extract_country_from_query: no country (null, low confidence
\* or a failed call) or a country name.
CountryReplies == {NULL, "vietnam"}

\* general_enquiry: every path appends one assistant message (the request
\* for a country, "no information", the answer, or the apology of the except
\* branch: all of kind "enquiry_reply", told apart by the calls made); the
\* paths that answer or fail re-write the collection context they read.
general_enquiry(s) ==
    LET PreserveContext(r) ==
            IF s.collection_in_progress
            THEN [r EXCEPT !.collection_in_progress = TRUE,
                           !.incomplete_initial_info = s.incomplete_initial_info,
                           !.previous_node = IF s.previous_node = ABSENT
                                             THEN "base_information_collector"
                                             ELSE s.previous_node]
            ELSE r
        context_country == s.incomplete_initial_info["country"]
        Answer(query_country, in_knowledge_base, answer_ok) ==
            LET country == IF query_country = NULL /\ s.collection_in_progress
                                /\ Truthy("country", context_country)
                           THEN context_country
                           ELSE query_country
            IN  IF country = NULL
                THEN Result(AddMsg(s, AIMessage("enquiry_reply", <<>>)),
                            <<Call("extract_country", TRUE)>>)
                ELSE IF ~in_knowledge_base
                THEN Result(AddMsg(s, AIMessage("enquiry_reply", <<>>)),
                            <<Call("extract_country", TRUE)>>)
                ELSE IF answer_ok
                THEN Result(PreserveContext(AddMsg(s, AIMessage("enquiry_reply", <<>>))),
                            <<Call("extract_country", TRUE), Call("answer", TRUE)>>)
                ELSE Result(PreserveContext(AddMsg(s, AIMessage("enquiry_reply", <<>>))),
                            <<Call("extract_country", TRUE), Call("answer", FALSE)>>)
    IN  {Answer(c, kb, ok) : c \in CountryReplies, kb \in BOOLEAN, ok \in BOOLEAN}

\* ----------------------------------------------- nodes/collection_resume.py
collection_resume(s) ==
    IF s.collection_in_progress /\ TruthyInfo(s.incomplete_initial_info)
    THEN LET missing_fields == MissingFields(s.incomplete_initial_info)
             previous_messages == s.messages
         IN  {Result([s EXCEPT !.messages = add_messages(s.messages,
                                    previous_messages \o <<AIMessage("resume_offer", missing_fields)>>),
                               !.next = "handle_resume_decision"], <<>>)}
    ELSE IF s.incomplete_session_id = NULL
    \* "messages" is a bare string here: add_messages turns it into a message
    \* of type 'human'.
    THEN {Result([AddMsg(s, HumanMessage("no_incomplete_application", <<>>))
                    EXCEPT !.next = "base_information_collector"], <<>>)}
    ELSE {Result([AddMsg(s, HumanMessage("legacy_resume_offer", <<>>))
                    EXCEPT !.next = "handle_resume_decision"], <<>>)}

\* What classify_resume_response can return: the five category names, any
\* other text, and "UNCLEAR" when the call raises.
ResumeReplies == {"RESUME", "DECLINE", "CONFIRMED_QUIT", "WANT_TO_CONTINUE", "UNCLEAR", "OTHER", "exception"}

\* Variant of classify_resume_response whose except branch returns
\* "DECLINE".
classify_resume_response_FailureDeclines(reply) == IF reply = "exception" THEN "DECLINE" ELSE reply

classify_resume_response(reply) == IF reply = "exception" THEN "UNCLEAR" ELSE reply

\* Variant of resume_visa_application that restores whatever the snapshot
\* holds and then empties the snapshot.
resume_visa_application_RestoreAndClear(s) ==
    [AddMsg(s, AIMessage("resume_ack", <<>>))
        EXCEPT !.collection_in_progress = TRUE,
               !.initial_info = s.incomplete_initial_info,
               !.incomplete_initial_info = EmptyInfo,
               !.confirmation_pending = FALSE,
               !.user_answer_category = NULL,
               !.next = "base_information_collector"]

resume_visa_application(s) ==
    IF TruthyInfo(s.incomplete_initial_info)
    THEN [AddMsg(s, AIMessage("resume_ack", <<>>))
            EXCEPT !.collection_in_progress = TRUE,
                   !.initial_info = s.incomplete_initial_info,
                   !.confirmation_pending = FALSE,
                   !.user_answer_category = NULL,
                   !.next = "base_information_collector"]
    \* The legacy branch needs incomplete_session_id, which nothing sets.
    ELSE [AddMsg(s, AIMessage("resume_fallback", <<>>))
            EXCEPT !.collection_in_progress = FALSE,
                   !.confirmation_pending = FALSE,
                   !.next = "base_information_collector"]

quit_visa_application(s) ==
    [AddMsg(s, AIMessage("cancelled", <<>>))
        EXCEPT !.awaiting_user_response = FALSE,
               !.initial_info = EmptyInfo,
               !.collection_in_progress = FALSE,
               !.incomplete_initial_info = EmptyInfo,
               !.confirmation_pending = FALSE,
               !.user_answer_category = NULL,
               !.previous_node = NULL,
               !.incomplete_session_id = NULL,
               !.next = "intent_analyser"]

\* Variant of ResumeDecision that quits on CONFIRMED_QUIT without looking
\* at confirmation_pending.
ResumeDecision_QuitUnconfirmed(s, intent) ==
    LET confirmation_pending == s.confirmation_pending IN
    IF intent = "RESUME"
    THEN resume_visa_application(s)
    ELSE IF intent = "DECLINE" /\ ~confirmation_pending
    THEN [AddMsg(s, AIMessage("confirm_quit_question", <<>>))
            EXCEPT !.confirmation_pending = TRUE,
                   !.next = "handle_resume_decision"]
    ELSE IF intent = "CONFIRMED_QUIT"
    THEN quit_visa_application(s)
    ELSE IF intent = "WANT_TO_CONTINUE" /\ confirmation_pending
    THEN resume_visa_application(s)
    ELSE IF intent = "UNCLEAR"
    THEN [AddMsg(s, AIMessage(IF confirmation_pending THEN "reask_quit" ELSE "reask_continue", <<>>))
            EXCEPT !.next = "handle_resume_decision"]
    ELSE [AddMsg(s, AIMessage(IF confirmation_pending THEN "reask_quit_short" ELSE "reask_continue_short", <<>>))
            EXCEPT !.next = "handle_resume_decision"]

\* The branch handle_resume_decision takes for a classified intent.
ResumeDecision(s, intent) ==
    LET confirmation_pending == s.confirmation_pending IN
    IF intent = "RESUME"
    THEN resume_visa_application(s)
    ELSE IF intent = "DECLINE" /\ ~confirmation_pending
    THEN [AddMsg(s, AIMessage("confirm_quit_question", <<>>))
            EXCEPT !.confirmation_pending = TRUE,
                   !.next = "handle_resume_decision"]
    ELSE IF intent = "CONFIRMED_QUIT" /\ confirmation_pending
    THEN quit_visa_application(s)
    ELSE IF intent = "WANT_TO_CONTINUE" /\ confirmation_pending
    THEN resume_visa_application(s)
    ELSE IF intent = "UNCLEAR"
    THEN [AddMsg(s, AIMessage(IF confirmation_pending THEN "reask_quit" ELSE "reask_continue", <<>>))
            EXCEPT !.next = "handle_resume_decision"]
    ELSE [AddMsg(s, AIMessage(IF confirmation_pending THEN "reask_quit_short" ELSE "reask_continue_short", <<>>))
            EXCEPT !.next = "handle_resume_decision"]

\* handle_resume_decision classifies the LAST message of the history;
\* `replies` are the replies the model can give.
handle_resume_decision(s, replies) ==
    {Result(ResumeDecision(s, classify_resume_response(reply)),
            <<Call("classify_resume_response", reply # "exception")>>) : reply \in replies}

\* ---------------------------------------------- nodes/detailed_collector.py
detailed_collector(s) == {Result(AddMsg(s, AIMessage("upload_request", <<>>)), <<>>)}

\* ----------------------------------------------------- nodes/docs_parser.py
\* Bounds of the direct calls of route_documents_to_state: the length of one
\* input list, and the number of entries the buckets hold together.
MaxDocs == 2

MaxStored == 3

\* The files of the checks.
FilePaths == {"passport.jpg", "booking.pdf"}

\* What the OCR collaborator does with a file: it returns a JSON object with
\* one of the document types of the prompt, or the call (reading the file,
\* the request, json.loads) raises.
OcrReplies == {"passport", "hotel_booking", "bank_statement", "invoice", "exception"}

\* The "content" object the collaborator extracts from a file.
Fields(file_path) == [extracted_from |-> file_path]

\* The text of the exception raised while a file is processed.
ExceptionText(file_path) == [exception_text_for |-> file_path]

\* extract_document_info: the collaborator's JSON object with file_path and
\* ocr_status added; every exception is caught and turned into a document of
\* type "unknown" whose summary and error carry the exception text.
extract_document_info(file_path, reply) ==
    IF reply = "exception"
    THEN [document_type |-> "unknown",
          file_path |-> file_path,
          content |-> <<>>,
          summary |-> [failed_to_process_document |-> ExceptionText(file_path)],
          ocr_status |-> "failed",
          error |-> ExceptionText(file_path)]
    ELSE [document_type |-> reply,
          content |-> Fields(file_path),
          summary |-> [description_of |-> file_path],
          file_path |-> file_path,
          ocr_status |-> "success"]

\* The bucket a document type is routed to.
Bucket(doc_type) ==
    CASE doc_type = "passport" -> "passport_info"
      [] doc_type = "hotel_booking" -> "accommodation_info"
      [] doc_type = "bank_statement" -> "financial_info"
      [] OTHER -> "document_uploads"

Buckets == {"passport_info", "accommodation_info", "financial_info", "document_uploads"}

\* What route_documents_to_state appends for a document: doc["content"] for
\* the three typed buckets, the whole document for document_uploads.
Stored(doc) ==
    IF Bucket(doc.document_type) = "document_uploads" THEN doc ELSE doc.content

RECURSIVE route_documents_to_state(_, _)
\* Appends every document to the bucket of its type, in input order; the
\* buckets are merged into the state by operator.add.
route_documents_to_state(s, docs) ==
    IF docs = <<>> THEN s
    ELSE LET doc == Head(docs)
             bucket == Bucket(doc["document_type"])
         IN  route_documents_to_state([s EXCEPT ![bucket] = Append(s[bucket], Stored(doc))], Tail(docs))

\* docs_parser on the latest human message, given what the words of
\* that message hold (`message_words`): "files" (words with a file extension), "slashes"
\* (words with a slash and no extension) or "none".  A file that does not
\* exist ends the node with "File not found: <file_path>"; the summary
\* message lists the type and the summary of every processed document.
docs_parser(s, message_words, ocr_replies) ==
    LET potential_paths == IF message_words = "files" THEN <<"passport.jpg">> ELSE <<>>
    IN  IF potential_paths = <<>> /\ message_words = "slashes"
        THEN {Result(AddMsg(s, AIMessage("not_file_paths", <<>>)), <<>>)}
        ELSE IF potential_paths = <<>>
        THEN {Result(AddMsg(s, AIMessage("provide_documents", <<>>)), <<>>)}
        ELSE {Result(AddMsg(s, AIMessage("file_not_found", <<potential_paths[1]>>)), <<>>)}
             \cup {LET processed_documents ==
                           [i \in 1..Len(potential_paths) |-> extract_document_info(potential_paths[i], replies[i])]
                   IN  Result(AddMsg(route_documents_to_state(s, processed_documents),
                                     AIMessage("processed",
                                               [i \in 1..Len(processed_documents) |->
                                                   [document_type |-> processed_documents[i].document_type,
                                                    summary |-> processed_documents[i].summary]])),
                              [i \in 1..Len(potential_paths) |->
                                   Call("extract_document_info", replies[i] # "exception")])
                   : replies \in [1..Len(potential_paths) -> ocr_replies]}

\* ------------------------- agent_based_assistant/tools/application_basic.py
\* What the text after a label ("Country:", "Purpose:", "Travelers:",
\* "Dates:") of the model's reply can be: no such line, "not mentioned",
\* nothing, a value; for Travelers also a text int() rejects.
NO_LINE == "no line"

NOT_MENTIONED == "not mentioned"

ReplyLines(k) ==
    CASE k = "country" -> {NO_LINE, NOT_MENTIONED, EMPTY} \cup CountryValues
      [] k = "purpose_of_travel" -> {NOT_MENTIONED, EMPTY, "tourism"}
      [] k = "number_of_travelers" -> {NOT_MENTIONED, "two", ZERO, "2"}
      [] k = "travel_dates" -> {NOT_MENTIONED, EMPTY, "next month"}

\* The replies of the model to the tool's extraction prompt.
ToolReplies == {r \in [SlotSet -> {NO_LINE, NOT_MENTIONED, EMPTY, ZERO, "2", "two", "tourism", "next month"} \cup CountryValues] :
                    \A k \in SlotSet : r[k] \in ReplyLines(k)}

\* int(travelers) succeeds.
IsInt(text) == text \in {ZERO, "2"}

\* _extract_basic_visa_info_simple: the parse of the reply's lines; {} when
\* the call raises.
_extract_basic_visa_info_simple(reply, ok) ==
    IF ~ok THEN EmptyInfo
    ELSE [k \in SlotSet |->
            IF reply[k] = NO_LINE \/ reply[k] = NOT_MENTIONED THEN NULL
            ELSE IF k = "number_of_travelers" /\ ~IsInt(reply[k]) THEN NULL
            ELSE reply[k]]

\* _get_missing_basic_fields: the same four truth tests as the graph's
\* collector.
_get_missing_basic_fields(info) == SelectSeq(RequiredSlots, LAMBDA k : ~Truthy(k, info[k]))

NoToolCall == [called |-> FALSE, extracted_info |-> EmptyInfo, missing_fields |-> <<>>, complete |-> FALSE]

\* base_information_collector_tool: extraction, missing fields, and either
\* the "all basic information" reply or the question for the missing ones.
base_information_collector_tool(reply, ok) ==
    LET extracted_info == _extract_basic_visa_info_simple(reply, ok)
        missing_fields == _get_missing_basic_fields(extracted_info)
    IN  [called |-> TRUE,
         extracted_info |-> extracted_info,
         missing_fields |-> missing_fields,
         complete |-> (missing_fields = <<>>)]

\* --------------------------------------------------------- graph/builder.py
\* What a routing map yields for a key it does not hold.
KeyError == "KeyError"

\* state.get("next", default)
GetNext(s, default) == IF s.next = NULL THEN default ELSE s.next

\* The routing maps of build_graph, as functions from key to node.
RoutingMap(node) ==
    CASE node = "intent_analyser" ->
            [greetings |-> "greetings",
             general_enquiry |-> "general_enquiry",
             visa_application |-> "visa_application",
             base_information_collector |-> "base_information_collector",
             handle_resume_decision |-> "handle_resume_decision",
             docs_parser |-> "docs_parser"]
      [] node = "general_enquiry" ->
            [collection_resume |-> "collection_resume", __end__ |-> END]
      [] node = "base_information_collector" ->
            [continue_collection |-> "base_information_collector",
             base_information_collector |-> "base_information_collector",
             detailed_collector |-> "detailed_collector",
             intent_analyser |-> "intent_analyser",
             proceed_to_next_step |-> END,
             __end__ |-> END]
      [] node = "docs_parser" ->
            [continue_collection |-> "docs_parser", __end__ |-> END]
      [] node = "collection_resume" ->
            [handle_resume_decision |-> "handle_resume_decision",
             base_information_collector |-> "base_information_collector",
             __end__ |-> END]
      [] node = "handle_resume_decision" ->
            [base_information_collector |-> "base_information_collector",
             intent_analyser |-> "intent_analyser",
             __end__ |-> END]

\* The key the conditional edge of a node computes from the state.
RoutingKey(node, s) ==
    CASE node = "intent_analyser" -> GetNext(s, "greetings")
      [] node = "general_enquiry" -> IF s.collection_in_progress THEN "collection_resume" ELSE END
      [] OTHER -> GetNext(s, END)

\* The node that follows `node` when it leaves the state s; KeyError when
\* the key is not in the routing map.
Successor(node, s) ==
    CASE node = "greetings" -> END
      [] node = "visa_application" -> "base_information_collector"
      [] node = "detailed_collector" -> "docs_parser"
      [] OTHER -> IF RoutingKey(node, s) \in DOMAIN RoutingMap(node)
                  THEN RoutingMap(node)[RoutingKey(node, s)]
                  ELSE KeyError

\* One node execution of the compiled graph: the node's update is merged,
\* the edge is evaluated on the merged state, and the run goes on, ends, or
\* is aborted (undeclared routing key, recursion limit).  An aborted run
\* leaves the state as the last node left it; the thread can be sent another
\* message (run_thread answers the failed request with an error).
Execute(node, results) ==
    /\ pc = node
    /\ \E r \in results :
        LET succ == Successor(node, r.s)
            failed == IF Call("extraction", FALSE) \in Range(r.calls) THEN 1 ELSE 0
        IN
        /\ failures + failed <= MaxFailures
        /\ failures' = failures + failed
        /\ llm_calls' = r.calls
        /\ step' = step + 1
        /\ IF succ = KeyError
           THEN /\ state' = r.s
                /\ pc' = END
                /\ run_error' = "routing"
           ELSE IF succ # END /\ step + 1 >= RecursionLimit
           THEN /\ state' = r.s
                /\ pc' = END
                /\ run_error' = "recursion"
           ELSE /\ state' = r.s
                /\ pc' = succ
                /\ run_error' = "none"
    /\ UNCHANGED <<turn, tool, documents, server, llm_config>>

\* ------------------------------ agent_based_assistant/config/settings.py
\* The largest LLM_MAX_RETRIES of the checks (the default is 3).
MaxRetries == 3

\* What one call of self.llm.invoke does: it returns a response with
\* content, returns nothing or an empty content, or raises an error whose
\* text holds one of the words below.
ErrorTexts == {"authentication", "invalid request", "malformed", "timeout"}

ServiceOutcomes == {"response", "empty"} \cup ErrorTexts

\* RuntimeError("Empty response from LLM")
EMPTY_RESPONSE == "empty response from llm"

\* Variant of _is_non_retryable_error that holds every error retryable.
_is_non_retryable_error_Never(error) == FALSE

\* _is_non_retryable_error: the lowered text of the error holds one of the
\* five patterns.
_is_non_retryable_error(error) ==
    error \in {"api key", "authentication", "authorization", "invalid request", "malformed"}

NoInvocation == [called |-> FALSE, max_retries |-> 0, outcomes |-> <<>>, calls |-> 0,
                 status |-> "none", error |-> "none", sleeps |-> 0]

RECURSIVE RetryLoop(_, _, _)
\* The for loop of invoke_with_retry from `attempt` on; outcomes[i] is what
\* the i-th call of the service does.
RetryLoop(max_retries, outcomes, attempt) ==
    IF attempt > max_retries
    THEN [called |-> TRUE, max_retries |-> max_retries, outcomes |-> outcomes, calls |-> attempt,
          status |-> "raised", error |-> "failed after all retries",
          sleeps |-> IF attempt = 0 THEN 0 ELSE attempt - 1]
    ELSE LET outcome == outcomes[attempt + 1]
             error == IF outcome = "empty" THEN EMPTY_RESPONSE ELSE outcome
         IN  IF outcome = "response"
             THEN [called |-> TRUE, max_retries |-> max_retries, outcomes |-> outcomes,
                   calls |-> attempt + 1, status |-> "returned", error |-> "none", sleeps |-> attempt]
             ELSE IF _is_non_retryable_error(error)
             THEN [called |-> TRUE, max_retries |-> max_retries, outcomes |-> outcomes,
                   calls |-> attempt + 1, status |-> "raised", error |-> error, sleeps |-> attempt]
             ELSE RetryLoop(max_retries, outcomes, attempt + 1)

\* invoke_with_retry, given what the calls of the service do.
invoke_with_retry(max_retries, outcomes) == RetryLoop(max_retries, outcomes, 0)

\* -------------- production_app.py, agent_based_assistant/production_app.py
\* The number of requests the servers receive.
MaxRequests == 3

Requests == 1..MaxRequests

\* The thread ids of the checks.
Threads == {"A", "B"}

\* The user message of request r (every request carries its own text).
UserMsg(r) == [type |-> "human", content |-> <<r>>]

\* The user messages of a history, by request.
RECURSIVE HumanOf(_)
HumanOf(messages) ==
    IF messages = <<>> THEN <<>>
    ELSE (IF Head(messages).type = "human" THEN Head(messages).content ELSE <<>>)
         \o HumanOf(Tail(messages))

\* The assistant's message of one run of the graph or of the agent: it is
\* computed from the history the run works on.
Reply(messages) == [type |-> "ai", content |-> HumanOf(messages)]

\* One run on a history: the user message is already in it, the assistant's
\* message is added.
Turn(messages) == Append(messages, Reply(messages))

\* config = {"configurable": {"thread_id": thread_id}}: the key under which
\* the checkpointer keeps the thread's state.
Config_Shared(thread_id) == "A"

Config(thread_id) == thread_id

\* A request slot before the request arrives.
NoRequest == [thread_id |-> "none", app |-> "none", at |-> "none", messages_before |-> 0,
              values |-> <<>>, response |-> <<>>]

\* The servers after startup: the checkpointer of production_app.py and
\* thread_states of agent_based_assistant/production_app.py hold nothing.
InitialServer == [checkpoints |-> [t \in Threads |-> <<>>],
                  thread_states |-> [t \in Threads |-> <<>>],
                  requests |-> [r \in Requests |-> NoRequest],
                  acting |-> "none"]

\* The new AI messages of a response: all_messages[messages_before:] of type 'ai'.
NewAIMessages(all_messages, messages_before) ==
    SelectSeq(SubSeq(all_messages, messages_before + 1, Len(all_messages)), LAMBDA m : m.type = "ai")

\* run_thread (graph) up to its first await: the request is read and
\* aget_state counts the messages the thread has stored.
run_thread_aget_state(sv, r, thread_id) ==
    [sv EXCEPT !.requests[r] = [NoRequest EXCEPT !.thread_id = thread_id, !.app = "graph", !.at = "counted",
                                                 !.messages_before = Len(sv.checkpoints[Config(thread_id)])],
               !.acting = thread_id]

\* ainvoke starts: the run loads the thread's latest checkpoint, adds the
\* user message and saves the input checkpoint.
run_thread_ainvoke(sv, r) ==
    LET thread_id == sv.requests[r].thread_id
        values == Append(sv.checkpoints[Config(thread_id)], UserMsg(r))
    IN  [sv EXCEPT !.requests[r].at = "running",
                   !.requests[r].values = values,
                   !.checkpoints[Config(thread_id)] = values,
                   !.acting = thread_id]

\* ainvoke returns: the nodes have run on the values of this run and the
\* last checkpoint of the run is saved.
run_thread_ainvoke_done(sv, r) ==
    LET thread_id == sv.requests[r].thread_id
        values == Turn(sv.requests[r].values)
    IN  [sv EXCEPT !.requests[r].at = "finished",
                   !.requests[r].values = values,
                   !.checkpoints[Config(thread_id)] = values,
                   !.acting = thread_id]

\* run_thread (graph) after ainvoke: aget_state again, and the response is
\* built from the messages stored after the first messages_before.
run_thread_response(sv, r) ==
    LET thread_id == sv.requests[r].thread_id
    IN  [sv EXCEPT !.requests[r].at = "responded",
                   !.requests[r].response = NewAIMessages(sv.checkpoints[Config(thread_id)],
                                                          sv.requests[r].messages_before),
                   !.acting = thread_id]

\* run_thread (agent): no await between the append of the user message and
\* the update of thread_states, so the request is one step; the response is
\* the latest AI message of the result.
agent_run_thread(sv, r, thread_id) ==
    LET result == Turn(Append(sv.thread_states[thread_id], UserMsg(r)))
    IN  [sv EXCEPT !.thread_states[thread_id] = result,
                   !.requests[r] = [NoRequest EXCEPT !.thread_id = thread_id, !.app = "agent",
                                                     !.at = "responded", !.values = result,
                                                     !.response = <<result[Len(result)]>>],
                   !.acting = thread_id]

\* stream_run (agent) before the response starts: the user message is
\* appended to the thread's stored list.
agent_stream_run(sv, r, thread_id) ==
    [sv EXCEPT !.thread_states[thread_id] = Append(@, UserMsg(r)),
               !.requests[r] = [NoRequest EXCEPT !.thread_id = thread_id, !.app = "agent", !.at = "streaming"],
               !.acting = thread_id]

\* generate_stream: the agent is run on the thread's stored list as it is
\* when the generator runs; its result is streamed and not stored.
agent_generate_stream(sv, r) ==
    LET thread_id == sv.requests[r].thread_id
        result == Turn(sv.thread_states[thread_id])
    IN  [sv EXCEPT !.requests[r].at = "responded",
                   !.requests[r].values = result,
                   !.requests[r].response = <<result[Len(result)]>>,
                   !.acting = thread_id]

\* ------------------------------------------------------------------ actions
\* The texts a user can send: nothing (or white space), a text, or one of
\* the fixed tokens ("yes", "no", "continue", ...).  What a text mentions is
\* chosen when a node first looks for it (`recognised`, `words`).  A token
\* is told apart from a text only by the token test of intent_analyser, so
\* tokens are sent only while a snapshot is outstanding.
UserInputs(s) ==
    {HumanMessage("empty", <<>>), HumanMessage("text", <<>>)}
    \cup (IF TruthyInfo(s.incomplete_initial_info)
          THEN {HumanMessage("token", <<>>)}
          ELSE {})

\* What the user's texts mention, as the extraction model recognises it:
\* nothing, a country, another country and the purpose, the travelers and
\* the dates.  The model runs at temperature 0 (config/settings.py), so it
\* gives one result for one message; the call can still raise each time.
Recognisable == {
    EmptyInfo,
    [EmptyInfo EXCEPT !["country"] = "Thailand"],
    [EmptyInfo EXCEPT !["country"] = "Vietnam", !["purpose_of_travel"] = "tourism"],
    [EmptyInfo EXCEPT !["number_of_travelers"] = "2", !["travel_dates"] = "next month"] }

\* `recognised` before the first successful extraction of a message.
UNSET == [k \in SlotSet |-> "unset"]

\* The extraction results for the latest human message: what is recognised
\* in the user's text (chosen by the first call that returns); nothing in
\* any other text.
ExtractionResults(s) ==
    IF LatestHuman(s.messages).kind # "text" THEN {EmptyInfo}
    ELSE IF recognised = UNSET THEN Recognisable
    ELSE {recognised}

\* What the words of the latest human message hold, for docs_parser.
WordKinds(s) ==
    IF LatestHuman(s.messages).kind # "text" THEN {"none"}
    ELSE IF words = "unset" THEN {"none", "slashes", "files"}
    ELSE {words}

\* main() / run_thread: the user's message is added to the history and the
\* graph is run from START.
UserMessage ==
    /\ pc = END
    /\ turn < MaxTurns
    /\ \E m \in UserInputs(state) :
        /\ state' = AddMsg(state, m)
        /\ recognised' = UNSET
        /\ words' = "unset"
        /\ resolver' = NoDecision
    /\ pc' = "intent_analyser"
    /\ turn' = turn + 1
    /\ step' = 0
    /\ run_error' = "none"
    /\ llm_calls' = <<>>
    /\ UNCHANGED <<failures, tool, documents, server, llm_config>>

IntentAnalyser ==
    /\ Execute("intent_analyser", intent_analyser(state))
    /\ UNCHANGED <<recognised, words, resolver>>

Greetings ==
    /\ Execute("greetings", greetings(state))
    /\ UNCHANGED <<recognised, words, resolver>>

GeneralEnquiry ==
    /\ Execute("general_enquiry", general_enquiry(state))
    /\ UNCHANGED <<recognised, words, resolver>>

VisaApplication ==
    /\ Execute("visa_application", visa_application(state))
    /\ UNCHANGED <<recognised, words, resolver>>

BaseInformationCollector ==
    \E r \in ExtractionResults(state) :
        /\ Execute("base_information_collector", base_information_collector(state, {r}))
        /\ recognised' = IF Call("extraction", TRUE) \in Range(llm_calls') THEN r ELSE recognised
        /\ UNCHANGED <<words, resolver>>

CollectionResume ==
    /\ Execute("collection_resume", collection_resume(state))
    /\ UNCHANGED <<recognised, words, resolver>>

HandleResumeDecision ==
    \E reply \in ResumeReplies :
        /\ Execute("handle_resume_decision", handle_resume_decision(state, {reply}))
        /\ resolver' = [intent |-> classify_resume_response(reply),
                        confirmation_pending |-> state.confirmation_pending]
        /\ UNCHANGED <<recognised, words>>

DetailedCollector ==
    /\ Execute("detailed_collector", detailed_collector(state))
    /\ UNCHANGED <<recognised, words, resolver>>

DocsParser ==
    \E w \in WordKinds(state) :
        /\ Execute("docs_parser", docs_parser(state, w, OcrReplies))
        /\ words' = w
        /\ UNCHANGED <<recognised, resolver>>

Init ==
    /\ state = InitialState
    /\ pc = END
    /\ turn = 0
    /\ step = 0
    /\ run_error = "none"
    /\ llm_calls = <<>>
    /\ recognised = UNSET
    /\ words = "unset"
    /\ failures = 0
    /\ resolver = NoDecision
    /\ tool = NoToolCall
    /\ documents = <<>>
    /\ server = InitialServer
    /\ llm_config = NoInvocation

Next ==
    \/ UserMessage
    \/ IntentAnalyser
    \/ Greetings
    \/ GeneralEnquiry
    \/ VisaApplication
    \/ BaseInformationCollector
    \/ CollectionResume
    \/ HandleResumeDecision
    \/ DetailedCollector
    \/ DocsParser

Spec == Init /\ [][Next]_vars

\* The agent calls base_information_collector_tool with a user message; the
\* tool keeps nothing between calls.
ToolCall ==
    /\ \E reply \in ToolReplies, ok \in BOOLEAN : tool' = base_information_collector_tool(reply, ok)
    /\ UNCHANGED <<state, pc, turn, step, run_error, llm_calls, recognised, words, failures, resolver,
                   documents, server, llm_config>>

NextTool == ToolCall

SpecTool == Init /\ [][NextTool]_vars

\* A direct call of route_documents_to_state on a list of parsed documents;
\* the returned buckets are merged into the state.
ParsedDocuments ==
    LET docs == {extract_document_info(f, reply) : f \in FilePaths, reply \in OcrReplies}
    IN  UNION {[1..n -> docs] : n \in 1..MaxDocs}

RouteDocuments ==
    /\ \E docs \in ParsedDocuments :
        /\ Len(state.passport_info) + Len(state.accommodation_info) + Len(state.financial_info)
             + Len(state.document_uploads) + Len(docs) <= MaxStored
        /\ documents' = docs
        /\ state' = route_documents_to_state(state, docs)
    /\ UNCHANGED <<pc, turn, step, run_error, llm_calls, recognised, words, failures, resolver, tool, server, llm_config>>

NextDocs == RouteDocuments

SpecDocs == Init /\ [][NextDocs]_vars

\* The merge of extract_and_process_info applied to the stored initial_info
\* and any result the structured extraction can return (kept in
\* `recognised`), falsy non-null values included.
MergeCall ==
    /\ \E extracted_data \in Extractions :
        /\ recognised' = extracted_data
        /\ state' = [state EXCEPT !.initial_info = MergeExtracted(state.initial_info, extracted_data)]
    /\ UNCHANGED <<pc, turn, step, run_error, llm_calls, words, failures, resolver, tool, documents, server, llm_config>>

NextMerge == MergeCall

SpecMerge == Init /\ [][NextMerge]_vars

\* The requests of the API servers.  Requests arrive in any order and for
\* any thread; a handler runs until its next await, where the event loop can
\* run any other handler.
ServerUnchanged ==
    UNCHANGED <<state, pc, turn, step, run_error, llm_calls, recognised, words, failures, resolver, tool,
                documents, llm_config>>

\* The next request slot.
Arrives(r) == server.requests[r].at = "none" /\ \A q \in 1..(r - 1) : server.requests[q].at # "none"

RunThread ==
    /\ \E r \in Requests, t \in Threads :
        /\ Arrives(r)
        /\ server' = run_thread_aget_state(server, r, t)
    /\ ServerUnchanged

RunThreadInvoke ==
    /\ \E r \in Requests :
        /\ server.requests[r].at = "counted"
        /\ server' = run_thread_ainvoke(server, r)
    /\ ServerUnchanged

RunThreadInvokeDone ==
    /\ \E r \in Requests :
        /\ server.requests[r].at = "running"
        /\ server' = run_thread_ainvoke_done(server, r)
    /\ ServerUnchanged

RunThreadResponse ==
    /\ \E r \in Requests :
        /\ server.requests[r].at = "finished"
        /\ server' = run_thread_response(server, r)
    /\ ServerUnchanged

AgentRunThread ==
    /\ \E r \in Requests, t \in Threads :
        /\ Arrives(r)
        /\ server' = agent_run_thread(server, r, t)
    /\ ServerUnchanged

AgentStreamRun ==
    /\ \E r \in Requests, t \in Threads :
        /\ Arrives(r)
        /\ server' = agent_stream_run(server, r, t)
    /\ ServerUnchanged

AgentGenerateStream ==
    /\ \E r \in Requests :
        /\ server.requests[r].at = "streaming"
        /\ server' = agent_generate_stream(server, r)
    /\ ServerUnchanged

NextServer ==
    \/ RunThread
    \/ RunThreadInvoke
    \/ RunThreadInvokeDone
    \/ RunThreadResponse
    \/ AgentRunThread
    \/ AgentStreamRun
    \/ AgentGenerateStream

SpecServer == Init /\ [][NextServer]_vars

\* A call of invoke_with_retry (through invoke_llm_safe) under a configured
\* LLM_MAX_RETRIES, for every sequence of service outcomes.
InvokeWithRetry ==
    /\ \E max_retries \in 0..MaxRetries :
         \E outcomes \in [1..(max_retries + 1) -> ServiceOutcomes] :
            llm_config' = invoke_with_retry(max_retries, outcomes)
    /\ UNCHANGED <<state, pc, turn, step, run_error, llm_calls, recognised, words, failures, resolver, tool,
                   documents, server>>

NextRetry == InvokeWithRetry

SpecRetry == Init /\ [][NextRetry]_vars

\* ================================================================== claims
\* Steps of the graph run, as seen by an action formula.
NodeRuns(node) == pc = node /\ step' = step + 1

LastMessage(messages) == messages[Len(messages)]

\* The step in which node `node` appends a message of kind `kind`.
Emits(node, kind) ==
    /\ NodeRuns(node)
    /\ Len(state'.messages) > 0
    /\ LastMessage(state'.messages).content.kind = kind

\* The slots of `info` that are null / absent, in the declared order.
NullSlots(info) == SelectSeq(RequiredSlots, LAMBDA k : info[k] = NULL)

\* ---- C1
\* C1: the merge of a successful extraction never changes a slot that is
\* already non-null in initial_info, whatever the extraction carries.
C1_MergeKeepsFilledSlots ==
    [][(NodeRuns("base_information_collector") /\ Call("extraction", TRUE) \in Range(llm_calls'))
         => \A k \in SlotSet :
               state.initial_info[k] # NULL => state'.initial_info[k] = state.initial_info[k]]_vars

\* ---- C2
\* C2: the missing list the collector computes is the required slots minus
\* the slots whose value is non-null (0 and "" are values), and collection
\* completes iff that list is empty -- for the tool of the agent-based
\* assistant and for the question / summary the graph's collector emits.
C2_MissingIsRequiredMinusNonNull ==
    /\ tool.called =>
          /\ tool.missing_fields = NullSlots(tool.extracted_info)
          /\ tool.complete <=> (NullSlots(tool.extracted_info) = <<>>)
    /\ (Len(state.messages) > 0 /\ LastMessage(state.messages).content.kind \in {"question", "continue_question"})
          => /\ LastMessage(state.messages).content.arg = NullSlots(state.initial_info)
             /\ NullSlots(state.initial_info) # <<>>
    /\ (Len(state.messages) > 0 /\ LastMessage(state.messages).content.kind = "summary")
          => NullSlots(state.initial_info) = <<>>

\* ---- C3
\* C3: in every reachable state extraction_retry_count is at most the
\* configured bound, whatever mix of extraction successes and failures the
\* turns had.
C3_RetryCountWithinBound == state.extraction_retry_count <= RetryBound

\* Two consecutive failures have happened: the apology was emitted.
C3_Witness ==
    /\ Len(state.messages) > 0
    /\ LastMessage(state.messages).content.kind = "apology"
    /\ failures >= 2

\* ---- C4
\* The current run has emitted the apology.
ApologyInRun ==
    \E i \in 1..Len(state.messages) :
        /\ state.messages[i].content.kind = "apology"
        /\ \A j \in i..Len(state.messages) : state.messages[j].type = "ai"

\* C4: the failure whose updated count exceeds the bound emits the apology,
\* resets the counter to 0 and leaves initial_info empty; and when that turn
\* is over the fields are empty, the counter is 0 and the last assistant
\* message is the apology.
C4_RetryExhaustion ==
    /\ [][(NodeRuns("base_information_collector")
            /\ Call("extraction", FALSE) \in Range(llm_calls')
            /\ state.extraction_retry_count + 1 > RetryBound)
          => /\ LastMessage(state'.messages).content.kind = "apology"
             /\ state'.extraction_retry_count = 0
             /\ state'.initial_info = EmptyInfo]_vars
    /\ []((pc = END /\ ApologyInRun)
          => /\ state.initial_info = EmptyInfo
             /\ state.extraction_retry_count = 0
             /\ LastAI(state.messages).kind = "apology")

\* ---- C5
\* intent_analyser runs on a non-empty message while a question is pending.
PendingQuestionStep ==
    /\ NodeRuns("intent_analyser")
    /\ state.awaiting_user_response
    /\ ~IsBlank(LastMessage(state.messages).content)

\* C5: with a question pending and a non-empty message, the decision is
\* exactly answer (to base_information_collector, user_answer_category
\* 'answer') or divert_to_faq (to general_enquiry); the only model call is
\* the answer-or-enquiry classification, and the decision is answer when
\* that call fails.
C5_PendingQuestionRouting ==
    [][PendingQuestionStep
         => /\ \/ /\ state'.next = "base_information_collector"
                  /\ state'.user_answer_category = "answer"
               \/ /\ state'.next = "general_enquiry"
                  /\ state'.user_answer_category = "general_enquiry"
            /\ Len(llm_calls') = 1
            /\ llm_calls'[1].call = "classify_user_response"
            /\ ~llm_calls'[1].ok => state'.user_answer_category = "answer"]_vars

\* The classification call failed and the message went to the collector.
C5_Witness ==
    /\ pc = "base_information_collector"
    /\ llm_calls = <<Call("classify_user_response", FALSE)>>
    /\ state.user_answer_category = "answer"

\* ---- C6
\* The step in which the router decides divert_to_faq.
DivertStep ==
    /\ PendingQuestionStep
    /\ state'.user_answer_category = "general_enquiry"

\* general_enquiry runs right after the router's pending-question decision.
EnquiryAfterDivert ==
    /\ NodeRuns("general_enquiry")
    /\ llm_calls = <<Call("classify_user_response", TRUE)>>

\* C6: the divert decision sets incomplete_initial_info to the current
\* initial_info and collection_in_progress to true, leaves initial_info
\* unchanged and runs general_enquiry; whatever path general_enquiry takes,
\* the run goes on to collection_resume.
C6_DivertPath ==
    [][/\ DivertStep
          => /\ state'.incomplete_initial_info = state.initial_info
             /\ state'.collection_in_progress
             /\ state'.initial_info = state.initial_info
             /\ pc' = "general_enquiry"
       /\ EnquiryAfterDivert
          => /\ pc' = "collection_resume"
             /\ state'.initial_info = state.initial_info
             /\ state'.incomplete_initial_info = state.initial_info]_vars

\* After a divert, general_enquiry took an early return (no country) and the
\* run is at collection_resume.
C6_Witness ==
    /\ pc = "collection_resume"
    /\ llm_calls = <<Call("extract_country", TRUE)>>
    /\ state.user_answer_category = "general_enquiry"
    /\ state.collection_in_progress

\* ---- C7
\* C7: when the resolver resumes, the snapshot becomes initial_info and
\* incomplete_initial_info is empty in the resulting state.
C7_ResumeClearsSnapshot ==
    [][Emits("handle_resume_decision", "resume_ack")
         => /\ state'.initial_info = state.incomplete_initial_info
            /\ state'.incomplete_initial_info = EmptyInfo]_vars

\* ---- C8
\* C8: after a want_to_continue reply in ConfirmingAbandon, at the end of
\* the turn initial_info equals the snapshot, confirmation_pending is false
\* and collection_in_progress is true.
C8_WantToContinueRestores ==
    (/\ pc = END
     /\ resolver = [intent |-> "WANT_TO_CONTINUE", confirmation_pending |-> TRUE])
    => /\ state.initial_info = state.incomplete_initial_info
       /\ ~state.confirmation_pending
       /\ state.collection_in_progress

\* ---- C9
\* C9: a confirmed quit empties initial_info, the document buckets and the
\* snapshot, clears every control flag, adds only the cancellation message
\* to the history, and ends the turn.
C9_ConfirmedQuitClearsAll ==
    [][Emits("handle_resume_decision", "cancelled")
         => /\ state'.initial_info = EmptyInfo
            /\ state'.passport_info = <<>>
            /\ state'.accommodation_info = <<>>
            /\ state'.financial_info = <<>>
            /\ state'.document_uploads = <<>>
            /\ state'.incomplete_initial_info = EmptyInfo
            /\ ~state'.collection_in_progress
            /\ ~state'.awaiting_user_response
            /\ ~state'.confirmation_pending
            /\ state'.extraction_retry_count = 0
            /\ state'.user_answer_category = NULL
            /\ SubSeq(state'.messages, 1, Len(state.messages)) = state.messages
            /\ Len(state'.messages) = Len(state.messages) + 1
            /\ pc' = END]_vars

\* ---- C10
\* C10: the resolver clears the application (initial_info, the snapshot)
\* only in a step that starts with confirmation_pending true and after the
\* confirmation question was asked; from Offering no reply, whatever its
\* classification, empties the snapshot or initial_info.
C10_QuitOnlyAfterConfirmation ==
    [][/\ Emits("handle_resume_decision", "cancelled")
          => /\ state.confirmation_pending
             /\ \E i \in 1..Len(state.messages) :
                    state.messages[i].content.kind = "confirm_quit_question"
       /\ (NodeRuns("handle_resume_decision") /\ ~state.confirmation_pending)
          => /\ state'.incomplete_initial_info = state.incomplete_initial_info
             /\ state'.incomplete_initial_info # EmptyInfo
             /\ state'.initial_info \in {state.initial_info, state.incomplete_initial_info}
             /\ state'.initial_info # EmptyInfo]_vars

\* The application was cancelled by a confirmed quit.
C10_Witness ==
    /\ resolver = [intent |-> "CONFIRMED_QUIT", confirmation_pending |-> TRUE]
    /\ \E i \in 1..Len(state.messages) : state.messages[i].content.kind = "cancelled"
    /\ state.initial_info = EmptyInfo

\* ---- C11
\* The resolver runs on a message of the user.
ResolverReadsUser == LastMessage(state.messages).type = "human"

\* C11: a decline in Offering sets confirmation_pending, emits the
\* confirmation question, leaves initial_info and the snapshot unchanged and
\* ends the turn normally; and the resolver, when it runs in
\* ConfirmingAbandon, classifies the user's message.
C11_DeclineAsksConfirmation ==
    [][/\ (NodeRuns("handle_resume_decision")
            /\ resolver' = [intent |-> "DECLINE", confirmation_pending |-> FALSE])
          => /\ state'.confirmation_pending
             /\ LastMessage(state'.messages).content.kind = "confirm_quit_question"
             /\ state'.initial_info = state.initial_info
             /\ state'.incomplete_initial_info = state.incomplete_initial_info
             /\ pc' = END
             /\ run_error' = "none"
       /\ (NodeRuns("handle_resume_decision") /\ state.confirmation_pending)
          => ResolverReadsUser]_vars

\* ---- C12
\* The resolver's step for a reply classified unclear, an unrecognised
\* classification output, or a failed classification call.
UnclearStep ==
    /\ NodeRuns("handle_resume_decision")
    /\ \/ resolver'.intent \in {"UNCLEAR", "OTHER"}
       \/ llm_calls' = <<Call("classify_resume_response", FALSE)>>

ResumeStep ==
    /\ NodeRuns("handle_resume_decision")
    /\ LastMessage(state'.messages).content.kind \in {"resume_ack", "resume_fallback"}

\* C13: a second resume right after a resume, with no snapshot taken in
\* between, leaves initial_info as the first resume left it.
C13_ResumeIdempotent ==
    [][ResumeStep
         => resume_visa_application(state').initial_info = state'.initial_info]_vars

\* A resume has restored a non-empty snapshot.
C13_Witness ==
    /\ pc = "base_information_collector"
    /\ resolver.intent = "RESUME"
    /\ LastMessage(state.messages).content.kind = "resume_ack"
    /\ state.initial_info # EmptyInfo

\* ---- C14
\* The most recent assistant message is a question of the collector, and
\* initial_info is what it was when the question was asked: the question
\* lists the slots that are missing now (the request to repeat everything
\* goes with an empty initial_info).
CollectorQuestionStands ==
    LET last == LastAI(state.messages) IN
    \/ /\ last.kind \in {"question", "continue_question"}
       /\ last.arg = MissingFields(state.initial_info)
    \/ /\ last.kind = "retry_request"
       /\ state.initial_info = EmptyInfo
    \/ last.kind = "no_response"

\* C14: at the end of every turn, awaiting_user_response implies that the
\* most recent assistant message is a question of the collector and that
\* nothing was merged into initial_info since it was asked.
C14_PendingQuestionInvariant ==
    (pc = END /\ state.awaiting_user_response) => CollectorQuestionStands

\* ---- C15
\* C15: in every reachable state collection_in_progress implies that
\* initial_info holds at least one slot.
C15_CollectionImpliesFields ==
    state.collection_in_progress => state.initial_info # EmptyInfo

\* ---- C16
\* A step of the collector in which the extraction call returned / raised.
ExtractionStep(ok) ==
    /\ NodeRuns("base_information_collector")
    /\ Call("extraction", ok) \in Range(llm_calls')

\* C16: extraction_retry_count changes only in a step of the collector that
\* made an extraction call, grows only when the call failed, and is 0 after
\* a successful extraction and after a confirmed quit.
C16_RetryCounterDiscipline ==
    [][/\ state'.extraction_retry_count # state.extraction_retry_count
          => (ExtractionStep(TRUE) \/ ExtractionStep(FALSE))
       /\ state'.extraction_retry_count > state.extraction_retry_count
          => ExtractionStep(FALSE)
       /\ ExtractionStep(TRUE) => state'.extraction_retry_count = 0
       /\ Emits("handle_resume_decision", "cancelled")
          => state'.extraction_retry_count = 0]_vars

\* An extraction succeeded after a failure had raised the counter.
C16_Witness ==
    /\ llm_calls = <<Call("extraction", TRUE)>>
    /\ failures = 1
    /\ state.extraction_retry_count = 0
    /\ \E i \in 1..Len(state.messages) : state.messages[i].content.kind = "retry_request"

\* ---- C17
\* C17: initial_info becomes empty only by a confirmed quit or by an
\* extraction failure beyond the retry bound; a failure within the bound
\* leaves the collected slots unchanged.
C17_ResetDiscipline ==
    [][/\ (state.initial_info # EmptyInfo /\ state'.initial_info = EmptyInfo)
          => \/ Emits("handle_resume_decision", "cancelled")
             \/ /\ ExtractionStep(FALSE)
                /\ state.extraction_retry_count + 1 > RetryBound
       /\ (ExtractionStep(FALSE) /\ state.extraction_retry_count + 1 <= RetryBound)
          => state'.initial_info = state.initial_info]_vars

\* ---- C18
\* intent_analyser runs on a non-empty message while no question is pending.
FullIntentStep ==
    /\ NodeRuns("intent_analyser")
    /\ ~state.awaiting_user_response
    /\ ~IsBlank(LastMessage(state.messages).content)

\* C18: with no question pending and a non-empty message, intent_analyser
\* routes to exactly one of greetings, general_enquiry, visa_application and
\* docs_parser, that node runs next, and the route is general_enquiry when
\* the intent classification call fails.
C18_FullIntentRouting ==
    [][FullIntentStep
         => /\ state'.next \in {"greetings", "general_enquiry", "visa_application", "docs_parser"}
            /\ run_error' = "none" => pc' = state'.next
            /\ Len(llm_calls') = 1
            /\ llm_calls'[1].call = "intent_classification"
            /\ ~llm_calls'[1].ok => state'.next = "general_enquiry"]_vars

\* The intent classification failed and general_enquiry is about to answer.
C18_Witness ==
    /\ pc = "general_enquiry"
    /\ llm_calls = <<Call("intent_classification", FALSE)>>
    /\ state.next = "general_enquiry"
    /\ ~state.awaiting_user_response

\* ---- C19
\* C19: when a snapshot is set and the user's message is one of the fixed
\* tokens, intent_analyser routes to handle_resume_decision and makes no
\* classification call.
C19_ResumeOverride ==
    [][(/\ NodeRuns("intent_analyser")
        /\ TruthyInfo(state.incomplete_initial_info)
        /\ IsResumeToken(LastMessage(state.messages).content))
         => /\ state'.next = "handle_resume_decision"
            /\ pc' = "handle_resume_decision"
            /\ llm_calls' = <<>>]_vars

\* ---- C20
\* C20: the node that runs after intent_analyser is the handler its decision
\* for this message selects; when the message is empty intent_analyser
\* decides nothing and no handler runs.
C20_OneHandlerPerTurn ==
    [][NodeRuns("intent_analyser")
         => IF IsBlank(LastMessage(state.messages).content)
            THEN pc' = END
            ELSE run_error' = "none" => pc' = state'.next]_vars

\* ---- C21
\* C21: after a divert from a pending question, whatever the snapshot holds,
\* collection_resume appends one assistant message that offers to resume and
\* lists the required slots missing from the snapshot, in declared order.
C21_ResumeOfferListsMissing ==
    [][(NodeRuns("collection_resume") /\ state.user_answer_category = "general_enquiry")
         => /\ Len(state'.messages) = Len(state.messages) + 1
            /\ LastMessage(state'.messages).type = "ai"
            /\ LastMessage(state'.messages).content.kind = "resume_offer"
            /\ LastMessage(state'.messages).content.arg = NullSlots(state.incomplete_initial_info)]_vars

\* ---- C22
\* The fields (content) of the documents of an input list that belong to a
\* bucket, in input order.
RECURSIVE FieldsFor(_, _)
FieldsFor(docs, bucket) ==
    IF docs = <<>> THEN <<>>
    ELSE (IF Bucket(Head(docs).document_type) = bucket THEN <<Head(docs).content>> ELSE <<>>)
         \o FieldsFor(Tail(docs), bucket)

\* C22: for every input list of parsed documents, route_documents_to_state
\* extends each bucket by the fields (content) of the documents of its type,
\* in input order and once per submission, and leaves every other bucket as
\* it was (passport -> passport_info, hotel_booking -> accommodation_info,
\* bank_statement -> financial_info, any other type -> document_uploads).
C22_DocumentRouting ==
    [][RouteDocuments => \A b \in Buckets : state'[b] = state[b] \o FieldsFor(documents', b)]_vars

\* ---- C23
\* Two states that differ in nothing but the messages appended.
SameButMessages(s1, s2) == [s1 EXCEPT !.messages = <<>>] = [s2 EXCEPT !.messages = <<>>]

\* C23: a turn reaches END after finitely many node executions: no node is
\* handed control again, within the turn, in the state it started from with
\* only its own message appended (from there it would repeat without bound,
\* the user's message and the collaborator's answer being the same).
C23_TurnTermination ==
    [][~(step' = step + 1 /\ pc' = pc /\ SameButMessages(state, state'))]_vars

\* ---- C24
\* A request that has been read and has not been answered yet.
InProcess(r) == server.requests[r].at \in {"counted", "running", "finished", "streaming"}

\* C24: for one thread_id a message is fully processed (state read, run,
\* state written, response built) before the next message of that thread
\* starts being processed: no two requests for the same thread of the same
\* server are being processed at the same time.
C24_SequentialTurns ==
    \A r1, r2 \in Requests :
        (r1 # r2 /\ InProcess(r1) /\ InProcess(r2)
           /\ server.requests[r1].app = server.requests[r2].app)
        => server.requests[r1].thread_id # server.requests[r2].thread_id

\* ---- C25
\* Every message of a history comes from the requests of thread t: a user
\* message is the message of a request for t, an assistant message was
\* computed from user messages of requests for t only.
FromThread(messages, t) ==
    \A i \in 1..Len(messages) :
        \A k \in 1..Len(messages[i].content) :
            server.requests[messages[i].content[k]].thread_id = t

\* C25: turns of one thread, processed while turns of another thread are
\* processed, never change the other thread's stored state: a thread's
\* stored state changes only in a step of a request for that thread, and
\* what is stored for a thread and answered to its requests is made of that
\* thread's requests only.
C25_SessionIsolation ==
    /\ [](/\ \A t \in Threads : /\ FromThread(server.checkpoints[t], t)
                                 /\ FromThread(server.thread_states[t], t)
          /\ \A r \in Requests : FromThread(server.requests[r].response, server.requests[r].thread_id))
    /\ [][\A t \in Threads :
            (server'.checkpoints[t] # server.checkpoints[t] \/ server'.thread_states[t] # server.thread_states[t])
            => server'.acting = t]_vars

\* A request for thread B has been answered from B's stored history while an
\* earlier request for thread A is still running.
C25_Witness ==
    \E r1, r2 \in Requests :
        /\ r1 < r2
        /\ server.requests[r1].thread_id = "A" /\ server.requests[r1].at = "running"
        /\ server.requests[r2].thread_id = "B" /\ server.requests[r2].at = "responded"
        /\ server.requests[r2].app = "graph"
        /\ server.requests[r2].response # <<>>
        /\ server.checkpoints["A"] # <<>> /\ server.checkpoints["B"] # <<>>

\* ---- C26
IsPrefix(a, b) == Len(a) <= Len(b) /\ SubSeq(b, 1, Len(a)) = a

\* The number of user messages of a history.
Humans(messages) == Cardinality({i \in 1..Len(messages) : messages[i].type = "human"})

\* C26: the history is append-only.  Every step leaves the history it found
\* as a prefix of the history it leaves (nothing removed, reordered or
\* replaced); every turn adds exactly one user message (so the history holds
\* as many user messages as turns were taken, a repeated text included),
\* followed by at least one assistant message once the turn is over; no
\* message is stored twice.
C26_AppendOnlyHistory ==
    /\ [][IsPrefix(state.messages, state'.messages)]_vars
    /\ [](/\ Humans(state.messages) = turn
          /\ (pc = END /\ turn > 0) => LastMessage(state.messages).type = "ai"
          /\ \A i, j \in 1..Len(state.messages) :
                i # j => state.messages[i].id # state.messages[j].id)

\* ---- C27
\* C27: after the merge every slot that was null in S and is non-null in the
\* extraction result R holds R's value, for every non-null value R can carry
\* (number_of_travelers = 0 and the empty string included).
C27_MergeFillsNullSlots ==
    [][MergeCall => \A k \in SlotSet :
                       (state.initial_info[k] = NULL /\ recognised'[k] # NULL)
                       => state'.initial_info[k] = recognised'[k]]_vars

\* ---- C28
\* The message names the file (of the messages of docs_parser only "File not
\* found: <file_path>" carries a path).
NamesFile(content) == content.kind = "file_not_found" /\ \E f \in FilePaths : content.arg = <<f>>

\* The message lists a document as processed.
ReportsProcessed(content) == content.kind = "processed" /\ content.arg # <<>>

\* The message carries the text of an exception.
ShowsExceptionText(content) ==
    /\ content.kind = "processed"
    /\ \E i \in 1..Len(content.arg), f \in FilePaths :
          content.arg[i].summary = [failed_to_process_document |-> ExceptionText(f)]

\* C28: when the parsing collaborator fails on a file, the message of
\* docs_parser names the file, carries no exception text, does not report a
\* processed document, and nothing is appended to any bucket.
C28_ParseFailure ==
    [][(NodeRuns("docs_parser") /\ Call("extract_document_info", FALSE) \in Range(llm_calls'))
         => LET content == LastMessage(state'.messages).content
            IN  /\ NamesFile(content)
                /\ ~ShowsExceptionText(content)
                /\ ~ReportsProcessed(content)
                /\ \A b \in Buckets : state'[b] = state[b]]_vars

\* ---- C29
\* base_information_collector runs next to visa_application (the turn was
\* routed with the intent to start an application).
StartStep ==
    /\ NodeRuns("base_information_collector")
    /\ LastMessage(state.messages).content.kind = "visa_application_intro"

\* C29: on a turn routed to visa_application and then to the collector,
\* collection_in_progress is true in the state the collector leaves, and the
\* collector has run the extraction on the user's message.
C29_StartOfApplication ==
    [][StartStep => /\ state'.collection_in_progress
                    /\ \E ok \in BOOLEAN : Call("extraction", ok) \in Range(llm_calls')]_vars

\* ---- C30
\* The collector has looked for missing slots (the user's message is not
\* blank and no extraction failed) and has found none.
NothingMissingStep ==
    /\ NodeRuns("base_information_collector")
    /\ ~IsBlank(LatestHuman(state.messages))
    /\ Call("extraction", FALSE) \notin Range(llm_calls')
    /\ MissingFields(state'.initial_info) = <<>>

\* C30: whenever the collector finds no required slot missing, after an
\* extraction or on the restored path, it emits the summary, clears
\* awaiting_user_response, hands control to detailed_collector in the same
\* run (unless the run is cut at the recursion limit), and does not set
\* collection_in_progress to false.
C30_CompletionHandoff ==
    [][NothingMissingStep
         => /\ LastMessage(state'.messages).content.kind = "summary"
            /\ ~state'.awaiting_user_response
            /\ (pc' = "detailed_collector" \/ run_error' = "recursion")
            /\ (state.collection_in_progress => state'.collection_in_progress)]_vars

\* ---- C31
\* The collector's extraction call returns and recognises no slot.
EmptyExtractionStep ==
    /\ NodeRuns("base_information_collector")
    /\ llm_calls' = <<Call("extraction", TRUE)>>
    /\ recognised' = EmptyInfo

\* The current run has reported an extraction failure (retry request or
\* apology).
FailureInRun ==
    \E i \in 1..Len(state.messages) :
        /\ state.messages[i].content.kind \in {"retry_request", "apology"}
        /\ \A j \in i..Len(state.messages) : state.messages[j].type = "ai"

\* C31: an extraction that returns with no slot recognised is not a failure:
\* the retry counter is 0 afterwards, initial_info is unchanged and the
\* missing slots are asked again; only a failed call takes the failure path;
\* one execution of the collector makes at most one extraction call, and
\* once a failure is reported no further extraction is made in that turn.
C31_EmptyExtractionIsNoFailure ==
    [][NodeRuns("base_information_collector")
         => /\ EmptyExtractionStep
                => /\ state'.extraction_retry_count = 0
                   /\ state'.initial_info = state.initial_info
                   /\ LET m == LastMessage(state'.messages).content
                      IN  IF MissingFields(state.initial_info) = <<>> THEN m.kind = "summary"
                          ELSE m.kind = "question" /\ m.arg = MissingFields(state.initial_info)
            /\ LastMessage(state'.messages).content.kind \in {"retry_request", "apology"}
                => llm_calls' = <<Call("extraction", FALSE)>>
            /\ Len(llm_calls') <= 1
            /\ FailureInRun => llm_calls' = <<>>]_vars

\* ---- C32
\* The collector asks for slots (after an extraction or on the restored
\* path).
QuestionStep ==
    /\ NodeRuns("base_information_collector")
    /\ LastMessage(state'.messages).content.kind \in {"question", "continue_question"}

\* The collector has looked for missing slots: the user's message is not
\* blank and no extraction failed.
LooksForMissingStep ==
    /\ NodeRuns("base_information_collector")
    /\ ~IsBlank(LatestHuman(state.messages))
    /\ Call("extraction", FALSE) \notin Range(llm_calls')

\* C32: the collector's question is one assistant message that asks for
\* exactly the slots that are null in initial_info, in the declared order
\* (country, purpose_of_travel, number_of_travelers, travel_dates), and sets
\* awaiting_user_response; it is asked whenever the collector finds a slot
\* missing.
C32_QuestionBatching ==
    [][/\ QuestionStep
           => /\ LastMessage(state'.messages).content.arg = NullSlots(state'.initial_info)
              /\ LastMessage(state'.messages).content.arg # <<>>
              /\ LastMessage(state'.messages).type = "ai"
              /\ Len(state'.messages) = Len(state.messages) + 1
              /\ state'.awaiting_user_response
       /\ (LooksForMissingStep /\ NullSlots(state'.initial_info) # <<>>) => QuestionStep]_vars

\* Scenario A: only the country was extracted, and purpose, travelers and
\* dates are asked for in one message.
C32_Witness ==
    /\ state.initial_info = [EmptyInfo EXCEPT !["country"] = "Thailand"]
    /\ LastMessage(state.messages).content
         = [kind |-> "question", arg |-> <<"purpose_of_travel", "number_of_travelers", "travel_dates">>]
    /\ state.awaiting_user_response

\* ---- C33
\* C33: after collection_resume has presented the offer the turn ends, and
\* every execution of handle_resume_decision classifies a message of the
\* user (the last message of the history, which it reads, is of type
\* 'human'), never a message of the assistant.
C33_ResolverClassifiesUserReply ==
    [][/\ Emits("collection_resume", "resume_offer") => pc' = END
       /\ NodeRuns("handle_resume_decision") => ResolverReadsUser]_vars

\* ---- C34
\* The calls the service has received in the last invocation, in order.
CallsMade == SubSeq(llm_config.outcomes, 1, llm_config.calls)

\* C34: one call of invoke_with_retry makes at most max_retries + 1 calls
\* to the service; it returns exactly when a call gives a non-empty response
\* and then made no call after it; every earlier call failed retryably or
\* was empty; it raises the error itself right at the first non-retryable
\* error; and it raises after max_retries + 1 failed attempts.
C34_BoundedRetry ==
    llm_config.called
    => /\ llm_config.calls <= llm_config.max_retries + 1
       /\ llm_config.status \in {"returned", "raised"}
       /\ \A i \in 1..(llm_config.calls - 1) :
              CallsMade[i] \in {"empty", "timeout"}
       /\ llm_config.status = "returned"
            <=> (llm_config.calls >= 1 /\ CallsMade[llm_config.calls] = "response")
       /\ \A i \in 1..Len(llm_config.outcomes) :
              (llm_config.outcomes[i] \in {"authentication", "invalid request", "malformed"}
                 /\ \A j \in 1..(i - 1) : llm_config.outcomes[j] \in {"empty", "timeout"})
              => /\ llm_config.calls = i
                 /\ llm_config.status = "raised"
                 /\ llm_config.error = llm_config.outcomes[i]
       /\ (\A i \in 1..Len(llm_config.outcomes) : llm_config.outcomes[i] \in {"empty", "timeout"})
              => /\ llm_config.calls = llm_config.max_retries + 1
                 /\ llm_config.status = "raised"

\* An empty response and a time-out are retried, then an authentication
\* error ends the invocation with one attempt left.
C34_Witness ==
    /\ llm_config.called
    /\ llm_config.max_retries = 3
    /\ llm_config.outcomes = <<"empty", "timeout", "authentication", "response">>
    /\ llm_config.calls = 3
    /\ llm_config.status = "raised"

\* ---- C35
\* The step in which the streamed answer of request r is produced.
StreamedStep(r) == server.requests[r].at = "streaming" /\ server'.requests[r].at = "responded"

\* C35: a turn served by stream_run leaves the stored thread state that the
\* same turn leaves when run_thread serves it: once the answer has been
\* streamed, the thread's stored history is the history with the user's
\* message followed by that turn's assistant reply.
C35_StreamLeavesSameState ==
    [][\A r \in Requests :
         StreamedStep(r)
         => server'.thread_states[server.requests[r].thread_id]
              = Turn(server.thread_states[server.requests[r].thread_id])]_vars

\* ---- C36
\* The nodes build_graph leaves through a conditional edge.
ConditionalNodes ==
    {"intent_analyser", "general_enquiry", "base_information_collector", "collection_resume",
     "handle_resume_decision", "docs_parser"}

\* C36: at every conditional edge, in every reachable state, the key the
\* edge reads from the state the node leaves is a key of the edge's routing
\* map: routing never fails on an undeclared target.
C36_RoutingMapTotality ==
    [][\A node \in ConditionalNodes :
         NodeRuns(node) => RoutingKey(node, state') \in DOMAIN RoutingMap(node)]_vars

\* ---- C37
\* C37: whenever resume_visa_application overwrites initial_info with the
\* snapshot, every required slot that held a value in initial_info just
\* before the resume holds the same value just after it.
C37_ResumeKeepsCollectedSlots ==
    [][Emits("handle_resume_decision", "resume_ack")
         => \A k \in SlotSet :
               state.initial_info[k] # NULL => state'.initial_info[k] = state.initial_info[k]]_vars

\* ---- C38
\* The assistant messages the graph run of request r appended: the run
\* works on the values it loaded and adds its reply to them.
OwnReplies(r) == <<LastMessage(server.requests[r].values)>>

\* C38: in run_thread of the graph server the response of a request holds
\* exactly the assistant messages its own graph run appended, however the
\* steps of two requests for one thread_id interleave.
C38_ResponseExactness ==
    \A r \in Requests :
        (server.requests[r].app = "graph" /\ server.requests[r].at = "responded")
        => server.requests[r].response = OwnReplies(r)

\* ---- C39
\* The messages a step appended to the history.
Appended == SubSeq(state'.messages, Len(state.messages) + 1, Len(state'.messages))

\* C39: every message a graph node adds to the history has the assistant
\* role, and the latest user message that base_information_collector and
\* docs_parser read is a message the user sent.
C39_NodesAppendAssistantMessages ==
    [][/\ (step' = step + 1) => \A i \in 1..Len(Appended) : Appended[i].type = "ai"
       /\ (NodeRuns("base_information_collector") \/ NodeRuns("docs_parser"))
            => LatestHuman(state.messages).kind \in {"empty", "text", "token"}]_vars

====
